---- MODULE Spec2Model ----
(***************************************************************************)
(* TyposCorrector (typos_correction/corrector.py): the object that wires   *)
(* the embedding table, the candidates generator, the corrections finder   *)
(* and the candidates ranker, and its train / suggest / suggest_by_batches *)
(* / persistence operations.                                               *)
(*                                                                         *)
(* Python values: None and a missing attribute are the empty tuple, a      *)
(* present value x is <<x>>.  A DataFrame is the sequence of its rows; a   *)
(* dict is the sequence of its (key, value) items in insertion order.      *)
(***************************************************************************)
EXTENDS Integers, Sequences, FiniteSets, TLC

VARIABLES
    nn_file,          \* self.nn_file
    threads_number,   \* self.threads_number
    fasttext,         \* self.fasttext (None: the attribute was never set)
    generator,        \* self.generator (None: the attribute was never set)
    finder,           \* self.finder
    ranker,           \* self.ranker
    tree,             \* the last tree _generate_tree returned (None: none yet)
    orig,             \* the corrector _generate_tree was called on, as it was then
    trained,          \* train or _load_tree has completed on this corrector
    last,             \* the last finished operation: arguments, outcome, calls made
    calls             \* the suggest / suggest_by_batches calls in flight, per caller

self == <<nn_file, threads_number, fasttext, generator, finder, ranker>>
vars == <<nn_file, threads_number, fasttext, generator, finder, ranker,
          tree, orig, trained, last, calls>>

None == <<>>
Some(x) == <<x>>

(***************************************************************************)
(* Bounds of the model.                                                    *)
(***************************************************************************)
MaxLen == 3        \* longest typos DataFrame handed to the batch operations
SmallLen == 1      \* longest typos DataFrame in the lifecycle specification
ConcLen == 2       \* longest typos DataFrame in the concurrent specification
MaxBatch == 2      \* largest explicit batch_size
NCallers == 2      \* concurrent callers of suggest / suggest_by_batches

(***************************************************************************)
(* Class constants and argument defaults of corrector.py.                  *)
(***************************************************************************)
DEFAULT_THREADS_NUMBER == 16
DEFAULT_RADIUS == 4
DEFAULT_MAX_DISTANCE == 3
DEFAULT_NEIGHBORS_NUMBER == 20
DEFAULT_TAKEN_FOR_DISTANCE == 10
DEFAULT_TRAIN_ROUNDS == 4000
DEFAULT_EARLY_STOPPING == 200
DEFAULT_BOOST_PARAM ==
    [max_depth |-> 6, eta |-> "0.03", min_child_weight |-> 2, silent |-> 1,
     objective |-> "binary:logistic", nthread |-> 16, subsample |-> "0.5",
     colsample_bytree |-> "0.5", alpha |-> 1, eval_metric |-> <<"auc", "error">>]
SUGGEST_N_CANDIDATES == 3
BATCH_SIZE == 2048

Min(a, b) == IF a < b THEN a ELSE b
Max(a, b) == IF a > b THEN a ELSE b
Abs(a) == IF a < 0 THEN 0 - a ELSE a
SetMin(S) == CHOOSE x \in S : \A y \in S : x <= y
SetMax(S) == CHOOSE x \in S : \A y \in S : x >= y

(***************************************************************************)
(* The files and tokens the model runs on.  Tokens are numbers: 1 and 2    *)
(* are the vocabulary, 3 is a misspelling near both, 4 is a token with no  *)
(* embedding coverage and no vocabulary token within max_distance.         *)
(***************************************************************************)
Tokens == {1, 2, 3, 4}
EmbFiles == {"emb", "emb2"}
VocabularyFiles == {"vocab", "vocab_malformed"}
FrequenciesFiles == {"freq", "freq_other_tokens"}
NNFiles == {None, Some("nn")}
SaveFiles == {None, Some("candidates.pkl")}
Models == {"m1", "m2"}

\* FastText.load_fasttext_format(emb_file): the embedding table of the file.
LoadFasttext(emb_file) == [table |-> emb_file]

\* The vector of a token in an embedding table (one dimension); None: no coverage.
Vector(ft, t) ==
    CASE t = 1 -> Some(10)
      [] t = 2 -> Some(IF ft.table = "emb" THEN 20 ELSE 13)
      [] t = 3 -> Some(IF ft.table = "emb" THEN 16 ELSE 12)
      [] OTHER -> None

\* Edit distance between two tokens.
EditDistance(s, t) ==
    CASE s = t -> 0
      [] {s, t} = {1, 3} -> 1
      [] {s, t} = {2, 3} -> 2
      [] {s, t} = {1, 2} -> 5
      [] OTHER -> 9

\* Length of a token, for the radius band.
TokenLength(t) == IF t = 4 THEN 12 ELSE 5 + (t % 2)

ReadVocabulary(vocabulary_file) ==
    IF vocabulary_file = "vocab" THEN Some({1, 2}) ELSE None

ReadFrequencies(frequencies_file) ==
    IF frequencies_file = "freq"
    THEN [t \in {1, 2} |-> IF t = 1 THEN 100 ELSE 50]
    ELSE [t \in {1, 3} |-> 7]

(***************************************************************************)
(* CorrectionsFinder (typos_correction/candidates_generation.py): the      *)
(* token index - vocabulary, frequencies, embedding table - and the        *)
(* generation parameters.                                                  *)
(***************************************************************************)
CorrectionsFinder ==
    [constructed |-> FALSE, tokens |-> {}, frequencies |-> <<>>, fasttext |-> None,
     neighbors_number |-> 0, taken_for_distance |-> 0, max_distance |-> 0,
     radius |-> 0]

\* finder.construct: DataFormatError on a malformed file or on token sets that
\* disagree, and then the finder is not touched (no partial load).
finder_construct(f, vocabulary_file, frequencies_file, ft, neighbors_number, taken_for_distance, max_distance, radius) ==
    LET v == ReadVocabulary(vocabulary_file)
        fr == ReadFrequencies(frequencies_file)
    IN  IF v = None \/ DOMAIN fr # v[1]
        THEN [outcome |-> "DataFormatError", finder |-> f]
        ELSE [outcome |-> "ok",
              finder |-> [constructed |-> TRUE, tokens |-> v[1], frequencies |-> fr,
                          fasttext |-> Some(ft),
                          neighbors_number |-> neighbors_number,
                          taken_for_distance |-> taken_for_distance,
                          max_distance |-> max_distance, radius |-> radius]]

\* finder._generate_tree: configuration and vocabulary, without the embedding
\* table (the corrector adds it back on load).
finder_generate_tree(f) ==
    [constructed |-> f.constructed, tokens |-> f.tokens,
     frequencies |-> f.frequencies, neighbors_number |-> f.neighbors_number,
     taken_for_distance |-> f.taken_for_distance, max_distance |-> f.max_distance,
     radius |-> f.radius]

\* finder._load_tree on the dict the corrector hands it.
finder_load_tree(d) ==
    [constructed |-> d.constructed, tokens |-> d.tokens, frequencies |-> d.frequencies,
     fasttext |-> Some(d.fasttext), neighbors_number |-> d.neighbors_number,
     taken_for_distance |-> d.taken_for_distance, max_distance |-> d.max_distance,
     radius |-> d.radius]

(***************************************************************************)
(* CandidatesGenerator and generate_candidates.                            *)
(***************************************************************************)
CandidatesGenerator(ft, nn) == [fasttext |-> ft, nn_file |-> nn]

\* Similarity of a candidate to the typo: 0 when the typo has no vector.
Similarity(gen, f, typo, c) ==
    LET vt == Vector(gen.fasttext, typo)
        vc == Vector(f.fasttext[1], c)
    IN  IF vt = None \/ vc = None THEN 0
        ELSE Max(0, 100 - 10 * Abs(vt[1] - vc[1]))

\* Neighbor strategy: c is among the neighbors_number nearest tokens of the typo
\* (ties: higher frequency, then the smaller token), the typo itself excluded.
ByNeighbors(gen, f, typo, c) ==
    /\ Vector(gen.fasttext, typo) # None
    /\ c # typo
    /\ LET closer(d) == \/ Similarity(gen, f, typo, d) > Similarity(gen, f, typo, c)
                        \/ /\ Similarity(gen, f, typo, d) = Similarity(gen, f, typo, c)
                           /\ \/ f.frequencies[d] > f.frequencies[c]
                              \/ f.frequencies[d] = f.frequencies[c] /\ d < c
       IN  Cardinality({d \in f.tokens \ {typo} : closer(d)}) < f.neighbors_number

\* Edit-distance strategy: c is among the taken_for_distance most frequent tokens,
\* within max_distance of the typo and within the radius band of its length.
ByDistance(f, typo, c) ==
    /\ Cardinality({d \in f.tokens : f.frequencies[d] > f.frequencies[c]})
           < f.taken_for_distance
    /\ Abs(TokenLength(typo) - TokenLength(c)) <= f.radius
    /\ EditDistance(typo, c) <= f.max_distance

\* The candidate rows of one typo, by ascending candidate token.
RECURSIVE RowsOf(_, _, _, _)
RowsOf(gen, f, typo, cs) ==
    IF cs = {} THEN <<>>
    ELSE LET c == SetMin(cs)
         IN  <<[typo |-> typo, cand |-> c, dist |-> EditDistance(typo, c),
                freq |-> f.frequencies[c], sim |-> Similarity(gen, f, typo, c),
                by_nn |-> ByNeighbors(gen, f, typo, c),
                by_ed |-> ByDistance(f, typo, c)]>>
             \o RowsOf(gen, f, typo, cs \ {c})

CandidatesOf(gen, f, typo) ==
    RowsOf(gen, f, typo,
           {c \in f.tokens : \/ c = typo
                             \/ ByNeighbors(gen, f, typo, c)
                             \/ ByDistance(f, typo, c)})

\* generate_candidates(typos, finder, threads_number, save_candidates_file): the
\* candidate set of every typo record, in record order.  A typo without embedding
\* coverage and without edit-distance matches keeps its place, with an empty set.
RECURSIVE generate_candidates(_, _, _)
generate_candidates(gen, typos, f) ==
    IF typos = <<>> THEN <<>>
    ELSE <<[typo |-> Head(typos).typo,
            rows |-> CandidatesOf(gen, f, Head(typos).typo)]>>
         \o generate_candidates(gen, Tail(typos), f)

\* The candidate tokens per typo.
get_candidates_tokens(candidates) ==
    [i \in 1..Len(candidates) |->
        [typo |-> candidates[i].typo,
         cands |-> [j \in 1..Len(candidates[i].rows) |-> candidates[i].rows[j].cand]]]

\* The feature matrix: one vector per candidate, in the order of the tokens.
get_candidates_features(candidates) ==
    [i \in 1..Len(candidates) |->
        [j \in 1..Len(candidates[i].rows) |->
            LET row == candidates[i].rows[j]
            IN  [dist |-> row.dist, freq |-> row.freq, sim |-> row.sim,
                 by_nn |-> row.by_nn, by_ed |-> row.by_ed]]]

(***************************************************************************)
(* CandidatesRanker (typos_correction/ranking.py).                         *)
(***************************************************************************)
CandidatesRanker == [params |-> None, bst |-> None]

set_boost_params(r, train_rounds, early_stopping, boost_param) ==
    [r EXCEPT !.params = Some([train_rounds |-> train_rounds,
                               early_stopping |-> early_stopping,
                               boost_param |-> boost_param])]

\* ranker.fit: the trained ensemble is one of Models (no seed is fixed).
fit(r, typos, tokens, features, m) == [r EXCEPT !.bst = Some(m)]

\* The score of one candidate row, in percent.
Score(bst, feat) ==
    IF bst = "m1" THEN Max(0, 100 - 30 * feat.dist) ELSE feat.sim

\* Ranking order of two scored rows: score, then frequency, then the token.
Before(a, b) ==
    \/ a.score > b.score
    \/ a.score = b.score /\ a.freq > b.freq
    \/ a.score = b.score /\ a.freq = b.freq /\ a.cand < b.cand

RECURSIVE SortScored(_)
SortScored(S) ==
    IF S = {} THEN <<>>
    ELSE LET a == CHOOSE x \in S : \A y \in S \ {x} : Before(x, y)
         IN  <<a>> \o SortScored(S \ {a})

\* The n first elements of a sequence (n >= 0); all of them for n = None.
Top(n, seq) == IF n = None THEN seq ELSE SubSeq(seq, 1, Min(Max(n[1], 0), Len(seq)))

\* The typos of the candidate tokens in order of first appearance.
RECURSIVE TyposInOrder(_, _)
TyposInOrder(tokens, seen) ==
    IF tokens = <<>> THEN <<>>
    ELSE IF Head(tokens).typo \in seen THEN TyposInOrder(Tail(tokens), seen)
    ELSE <<Head(tokens).typo>>
         \o TyposInOrder(Tail(tokens), seen \cup {Head(tokens).typo})

\* The suggestions of one typo: its candidates by descending score; none for a
\* typo with an empty candidate set.
SuggestionsOf(bst, tokens, features, typo) ==
    LET scored == UNION {{[cand |-> tokens[i].cands[j],
                           score |-> Score(bst, features[i][j]),
                           freq |-> features[i][j].freq] :
                              j \in 1..Len(tokens[i].cands)} :
                            i \in {k \in 1..Len(tokens) : tokens[k].typo = typo}}
        sorted == SortScored(scored)
    IN  [i \in 1..Len(sorted) |-> <<sorted[i].cand, sorted[i].score>>]

\* One entry per typo, a typo without candidates with an empty suggestion list;
\* with return_all False a typo whose best candidate is the typo itself has none.
RECURSIVE RankTypos(_, _, _, _, _, _)
RankTypos(bst, tokens, features, typos, n_candidates, return_all) ==
    IF typos = <<>> THEN <<>>
    ELSE LET t == Head(typos)
             all == SuggestionsOf(bst, tokens, features, t)
             rest == RankTypos(bst, tokens, features, Tail(typos), n_candidates,
                               return_all)
         IN  IF ~return_all /\ all # <<>> /\ all[1][1] = t
             THEN rest
             ELSE <<<<t, Top(n_candidates, all)>>>> \o rest

\* ranker.rank: ModelNotTrainedError before any fit or load, else the dict
\* typo -> the n_candidates best (candidate, score) pairs.
rank(r, tokens, features, n_candidates, return_all) ==
    IF r.bst = None
    THEN [outcome |-> "ModelNotTrainedError", value |-> <<>>]
    ELSE [outcome |-> "ok",
          value |-> RankTypos(r.bst[1], tokens, features, TyposInOrder(tokens, {}),
                              n_candidates, return_all)]

ranker_generate_tree(r) ==
    [hyperparameters |-> r.params, ensemble |-> r.bst]

ranker_load_tree(r, t) ==
    [params |-> t.hyperparameters, bst |-> t.ensemble]

(***************************************************************************)
(* Inputs.                                                                 *)
(***************************************************************************)
\* The rows a typos DataFrame is made of: an index label and a typo.
Rows == {[idx |-> 0, typo |-> 3], [idx |-> 1, typo |-> 1], [idx |-> 0, typo |-> 4]}

FramesOver(rows, k) == UNION {[1..m -> rows] : m \in 0..k}

FramesUpTo(k) == FramesOver(Rows, k)

\* The rows the concurrent callers draw from.
ConcRows == {row \in Rows : row.idx = 0}

\* An argument the caller left out, and one the caller gave.
Omitted == [given |-> FALSE]
Given(x) == [given |-> TRUE, val |-> x]
Arg(a, default) == IF a.given THEN a.val ELSE default

\* A candidates table computed beforehand (for the typo 3, on the files above).
PrecomputedCandidates ==
    LET ft == LoadFasttext("emb")
        f == finder_construct(CorrectionsFinder, "vocab", "freq", ft,
                              DEFAULT_NEIGHBORS_NUMBER, DEFAULT_TAKEN_FOR_DISTANCE,
                              DEFAULT_MAX_DISTANCE, DEFAULT_RADIUS).finder
    IN  generate_candidates(CandidatesGenerator(ft, None),
                            <<[idx |-> 0, typo |-> 3]>>, f)

CandidatesArgs == {None, Some(PrecomputedCandidates)}
NCandidatesArgs == {Omitted, Given(Some(0)), Given(Some(1))}
ReturnAllArgs == {Omitted, Given(TRUE), Given(FALSE)}
BatchSizeArgs == {Omitted} \cup {Given(b) : b \in 1..MaxBatch}

\* A train / suggest that generates candidates whatever the caller supplied.
AlwaysGenerate(candidates) == TRUE

\* `if candidates is None`, lines 94 and 121: the candidates are generated.
NeedsGeneration(candidates) == candidates = None

(***************************************************************************)
(* TyposCorrector.suggest, lines 108-125, on the corrector's fields.       *)
(* The result: the outcome ("ok" or the exception raised), the dict        *)
(* returned and the calls made, in order.                                  *)
(***************************************************************************)
suggest(gen, f, threads, r, typos, candidates, save_candidates_file, n_candidates, return_all) ==
    LET entry == <<[ev |-> "suggest", typos |-> typos, candidates |-> candidates,
                    save |-> save_candidates_file, n_candidates |-> n_candidates,
                    return_all |-> return_all]>>
    IN  IF NeedsGeneration(candidates) /\ gen = None
        THEN [outcome |-> "AttributeError", value |-> <<>>, log |-> entry]
        ELSE LET cands == IF NeedsGeneration(candidates)
                          THEN generate_candidates(gen[1], typos, f)
                          ELSE candidates[1]
                 made == IF NeedsGeneration(candidates)
                         THEN <<[ev |-> "generate_candidates", typos |-> typos,
                                 finder |-> f, threads |-> threads,
                                 save |-> save_candidates_file]>>
                              \o (IF save_candidates_file = None THEN <<>>
                                  ELSE <<[ev |-> "write",
                                          file |-> save_candidates_file[1],
                                          candidates |-> cands]>>)
                         ELSE <<>>
                 res == rank(r, get_candidates_tokens(cands),
                             get_candidates_features(cands), n_candidates, return_all)
             IN  [outcome |-> res.outcome, value |-> res.value,
                  log |-> entry \o made
                          \o <<[ev |-> "rank", tokens |-> get_candidates_tokens(cands),
                                features |-> get_candidates_features(cands),
                                n_candidates |-> n_candidates,
                                return_all |-> return_all]>>]

(***************************************************************************)
(* test_df.loc[a:b, :], lines 144-146: a label slice.  The left bound is   *)
(* the first row labelled a, the right bound the last row labelled b; a    *)
(* label whose rows are not adjacent has no slice bound (KeyError).        *)
(***************************************************************************)
Positions(df, label) == {i \in 1..Len(df) : df[i].idx = label}

Adjacent(S) == S = SetMin(S)..SetMax(S)

loc(df, a, b) ==
    IF ~Adjacent(Positions(df, a)) \/ ~Adjacent(Positions(df, b))
    THEN [outcome |-> "KeyError", value |-> <<>>]
    ELSE [outcome |-> "ok",
          value |-> SubSeq(df, SetMin(Positions(df, a)), SetMax(Positions(df, b)))]

\* The batch the loop body at offset i (0-based) hands to suggest.
Batch(test_df, i, batch_size) ==
    loc(test_df, test_df[i + 1].idx,
        test_df[Min(Len(test_df) - 1, i + batch_size - 1) + 1].idx)

\* A chain that stops after the first batch.
chain_first(dicts) == IF dicts = <<>> THEN <<>> ELSE Head(dicts)

\* chain.from_iterable over the items of the dicts.
RECURSIVE chain(_)
chain(dicts) == IF dicts = <<>> THEN <<>> ELSE Head(dicts) \o chain(Tail(dicts))

\* dict(items): a key keeps the place of its first item and the value of its last.
RECURSIVE dict(_)
dict(items) ==
    IF items = <<>> THEN <<>>
    ELSE LET d == dict(SubSeq(items, 1, Len(items) - 1))
             kv == items[Len(items)]
             at == {i \in 1..Len(d) : d[i][1] = kv[1]}
         IN  IF at = {} THEN Append(d, kv)
             ELSE [i \in 1..Len(d) |-> IF i \in at THEN kv ELSE d[i]]

(***************************************************************************)
(* TyposCorrector.suggest_by_batches, lines 136-150: the loop from offset  *)
(* i on, with the suggestions and the calls so far.                        *)
(***************************************************************************)
RECURSIVE BatchLoop(_, _, _, _, _, _, _, _, _, _, _)
BatchLoop(gen, f, threads, r, test_df, n_candidates, return_all, batch_size, i, all_suggestions, log) ==
    IF i >= Len(test_df)
    THEN [outcome |-> "ok", value |-> dict(chain(all_suggestions)), log |-> log]
    ELSE LET b == Batch(test_df, i, batch_size)
         IN  IF b.outcome # "ok"
             THEN [outcome |-> b.outcome, value |-> <<>>, log |-> log]
             ELSE LET s == suggest(gen, f, threads, r, b.value, None, None,
                                   n_candidates, return_all)
                  IN  IF s.outcome # "ok"
                      THEN [outcome |-> s.outcome, value |-> <<>>,
                            log |-> log \o s.log]
                      ELSE BatchLoop(gen, f, threads, r, test_df, n_candidates,
                                     return_all, batch_size, i + batch_size,
                                     Append(all_suggestions, s.value), log \o s.log)

suggest_by_batches(gen, f, threads, r, test_df, n_candidates, return_all, batch_size) ==
    BatchLoop(gen, f, threads, r, test_df, n_candidates, return_all, batch_size, 0,
              <<>>, <<>>)

(***************************************************************************)
(* The corrector as a state machine.                                       *)
(***************************************************************************)
\* The corrector's fields, as a record (for `last.pre` and `orig`).
Fields ==
    [nn_file |-> nn_file, threads_number |-> threads_number, fasttext |-> fasttext,
     generator |-> generator, finder |-> finder, ranker |-> ranker,
     trained |-> trained]

NoArgs ==
    [typos |-> <<>>, candidates |-> None, save |-> None, n_candidates |-> Omitted,
     return_all |-> Omitted, batch_size |-> Omitted]

Finished(op, args, outcome, value, log) ==
    [op |-> op, args |-> args, outcome |-> outcome, value |-> value, log |-> log,
     pre |-> Fields]

Idle == [pc |-> "idle"]

\* No operation has finished whose result the caller has not taken yet.
Nothing == [op |-> "none"]

\* No suggest / suggest_by_batches call is in flight.
Quiet == \A c \in 1..NCallers : calls[c].pc = "idle"

\* The corrector is free for the next operation.
Ready == last = Nothing /\ Quiet

\* TyposCorrector.__init__, lines 43-49: the ranker after construction.
InitialRanker ==
    set_boost_params(CandidatesRanker, DEFAULT_TRAIN_ROUNDS, DEFAULT_EARLY_STOPPING,
                     DEFAULT_BOOST_PARAM)

Init ==
    /\ nn_file \in NNFiles
    /\ threads_number = DEFAULT_THREADS_NUMBER
    /\ fasttext = None
    /\ generator = None
    /\ finder = CorrectionsFinder
    /\ ranker = InitialRanker
    /\ tree = None
    /\ orig = None
    /\ trained = FALSE
    /\ last = Nothing
    /\ calls = [c \in 1..NCallers |-> Idle]

\* A constructor that also builds a generator, on an empty embedding table.
init_with_generator(threads, nn) ==
    /\ Ready
    /\ nn_file' = nn
    /\ threads_number' = threads
    /\ fasttext' = None
    /\ generator' = Some(CandidatesGenerator([table |-> "none"], nn))
    /\ finder' = CorrectionsFinder
    /\ ranker' = InitialRanker
    /\ trained' = FALSE
    /\ last' = Finished("__init__", NoArgs, "ok", <<>>, <<>>)
    /\ UNCHANGED <<tree, orig, calls>>

\* A new corrector is constructed (lines 43-49) and takes the place of the old
\* one; a tree generated before stays available.
__init__(threads, nn) ==
    /\ Ready
    /\ nn_file' = nn
    /\ threads_number' = threads
    /\ fasttext' = None
    /\ generator' = None
    /\ finder' = CorrectionsFinder
    /\ ranker' = InitialRanker
    /\ trained' = FALSE
    /\ last' = Finished("__init__", NoArgs, "ok", <<>>, <<>>)
    /\ UNCHANGED <<tree, orig, calls>>

\* set_ranker_params, lines 51-54.
set_ranker_params(train_rounds, early_stopping, boost_param) ==
    /\ Ready
    /\ ranker' = set_boost_params(ranker, train_rounds, early_stopping, boost_param)
    /\ last' = Finished("set_ranker_params", NoArgs, "ok", <<>>, <<>>)
    /\ UNCHANGED <<nn_file, threads_number, fasttext, generator, finder, tree, orig,
                   trained, calls>>

\* create_model, lines 56-64: the embedding table and the generator are assigned
\* before the finder reads the vocabulary and frequencies files.
create_model(vocabulary_file, frequencies_file, emb_file, neighbors_number, taken_for_distance, max_distance, radius) ==
    LET ft == LoadFasttext(emb_file)
        built == finder_construct(finder, vocabulary_file, frequencies_file, ft,
                                  neighbors_number, taken_for_distance, max_distance,
                                  radius)
    IN  /\ Ready
        /\ fasttext' = Some(ft)
        /\ generator' = Some(CandidatesGenerator(ft, nn_file))
        /\ finder' = built.finder
        /\ last' = Finished("create_model", NoArgs, built.outcome, <<>>, <<>>)
        /\ UNCHANGED <<nn_file, threads_number, ranker, tree, orig, trained, calls>>

pickle_dumps(x) == [pickled |-> x]
pickle_loads(b) == b.pickled

\* _generate_tree, lines 66-69; self.fasttext is read first.
_generate_tree ==
    /\ Ready
    /\ IF fasttext = None
       THEN /\ last' = Finished("_generate_tree", NoArgs, "AttributeError", <<>>, <<>>)
            /\ UNCHANGED <<tree, orig>>
       ELSE /\ tree' = Some([fasttext |-> pickle_dumps(fasttext[1]),
                             finder |-> finder_generate_tree(finder),
                             ranker |-> ranker_generate_tree(ranker)])
            /\ orig' = Some(Fields)
            /\ last' = Finished("_generate_tree", NoArgs, "ok", <<>>, <<>>)
    /\ UNCHANGED <<nn_file, threads_number, fasttext, generator, finder, ranker,
                   trained, calls>>

\* _load_tree, lines 71-77, on the tree generated last.  finder_dict is the
\* tree's own "finder" dict (line 74), so the assignment of line 75 leaves the
\* embedding table in the caller's tree.
_load_tree ==
    /\ Ready
    /\ tree # None
    /\ LET ft == pickle_loads(tree[1].fasttext)
           finder_dict == [k \in DOMAIN tree[1].finder \cup {"fasttext"} |->
                              IF k = "fasttext" THEN ft ELSE tree[1].finder[k]]
       IN  /\ fasttext' = Some(ft)
           /\ generator' = Some(CandidatesGenerator(ft, nn_file))
           /\ tree' = Some([tree[1] EXCEPT !.finder = finder_dict])
           /\ finder' = finder_load_tree(finder_dict)
           /\ ranker' = ranker_load_tree(ranker, tree[1].ranker)
    /\ trained' = TRUE
    /\ last' = Finished("_load_tree", NoArgs, "ok", <<>>, <<>>)
    /\ UNCHANGED <<nn_file, threads_number, orig, calls>>

\* train, lines 84-98; m is the ensemble the fit ends with.
train(typos, candidates, save_candidates_file, m) ==
    LET args == [NoArgs EXCEPT !.typos = typos, !.candidates = candidates,
                               !.save = save_candidates_file]
    IN  /\ Ready
        /\ IF NeedsGeneration(candidates) /\ generator = None
           THEN /\ last' = Finished("train", args, "AttributeError", <<>>, <<>>)
                /\ UNCHANGED <<ranker, trained>>
           ELSE LET cands == IF NeedsGeneration(candidates)
                             THEN generate_candidates(generator[1], typos, finder)
                             ELSE candidates[1]
                    made == IF NeedsGeneration(candidates)
                            THEN <<[ev |-> "generate_candidates", typos |-> typos,
                                    finder |-> finder, threads |-> threads_number,
                                    save |-> save_candidates_file]>>
                                 \o (IF save_candidates_file = None THEN <<>>
                                     ELSE <<[ev |-> "write",
                                             file |-> save_candidates_file[1],
                                             candidates |-> cands]>>)
                            ELSE <<>>
                IN  /\ ranker' = fit(ranker, typos, get_candidates_tokens(cands),
                                     get_candidates_features(cands), m)
                    /\ trained' = TRUE
                    /\ last' = Finished("train", args, "ok", <<>>,
                                 made \o <<[ev |-> "fit", typos |-> typos,
                                            tokens |-> get_candidates_tokens(cands),
                                            features |->
                                                get_candidates_features(cands)]>>)
        /\ UNCHANGED <<nn_file, threads_number, fasttext, generator, finder, tree,
                       orig, calls>>

\* A caller runs suggest to its end; arguments left out take the defaults of
\* line 109-110.
suggest_call(typos, candidates, save_candidates_file, n_arg, r_arg) ==
    LET res == suggest(generator, finder, threads_number, ranker, typos, candidates,
                       save_candidates_file, Arg(n_arg, Some(SUGGEST_N_CANDIDATES)),
                       Arg(r_arg, TRUE))
    IN  /\ Ready
        /\ last' = Finished("suggest",
                            [NoArgs EXCEPT !.typos = typos, !.candidates = candidates,
                                           !.save = save_candidates_file,
                                           !.n_candidates = n_arg,
                                           !.return_all = r_arg],
                            res.outcome, res.value, res.log)
        /\ UNCHANGED <<nn_file, threads_number, fasttext, generator, finder, ranker,
                       tree, orig, trained, calls>>

\* A caller runs suggest_by_batches to its end; arguments left out take the
\* defaults of lines 136-137.
suggest_by_batches_call(test_df, n_arg, r_arg, b_arg) ==
    LET res == suggest_by_batches(generator, finder, threads_number, ranker, test_df,
                                  Arg(n_arg, None), Arg(r_arg, TRUE),
                                  Arg(b_arg, BATCH_SIZE))
    IN  /\ Ready
        /\ last' = Finished("suggest_by_batches",
                            [NoArgs EXCEPT !.typos = test_df, !.n_candidates = n_arg,
                                           !.return_all = r_arg, !.batch_size = b_arg],
                            res.outcome, res.value, res.log)
        /\ UNCHANGED <<nn_file, threads_number, fasttext, generator, finder, ranker,
                       tree, orig, trained, calls>>

\* The caller takes the result of the operation that finished.
Return ==
    /\ last # Nothing
    /\ last' = Nothing
    /\ UNCHANGED <<nn_file, threads_number, fasttext, generator, finder, ranker,
                   tree, orig, trained, calls>>

\* Construction, hyperparameters and create_model on the embedding files embs.
Lifecycle(embs) ==
    \/ \E nn \in NNFiles : __init__(DEFAULT_THREADS_NUMBER, nn)
    \/ \E tr \in {DEFAULT_TRAIN_ROUNDS, 10} :
          set_ranker_params(tr, DEFAULT_EARLY_STOPPING, DEFAULT_BOOST_PARAM)
    \/ \E vf \in VocabularyFiles, ff \in FrequenciesFiles, ef \in embs :
          create_model(vf, ff, ef, DEFAULT_NEIGHBORS_NUMBER,
                       DEFAULT_TAKEN_FOR_DISTANCE, DEFAULT_MAX_DISTANCE,
                       DEFAULT_RADIUS)

Persistence == _generate_tree \/ _load_tree

\* The callers of train, suggest and suggest_by_batches, with the arguments they
\* draw from.
Train(frames, saves, models) ==
    \E typos \in frames, candidates \in CandidatesArgs, save \in saves, m \in models :
        train(typos, candidates, save, m)

Suggest(frames, saves, ns, rs) ==
    \E typos \in frames, candidates \in CandidatesArgs, save \in saves, n \in ns,
       r \in rs :
        suggest_call(typos, candidates, save, n, r)

SuggestByBatches(frames, ns, rs, bs) ==
    \E test_df \in frames, n \in ns, r \in rs, b \in bs :
        suggest_by_batches_call(test_df, n, r, b)

\* The life of correctors, on short DataFrames.
Next ==
    \/ Lifecycle(EmbFiles)
    \/ Train(FramesUpTo(SmallLen), SaveFiles, Models)
    \/ Suggest(FramesUpTo(SmallLen), SaveFiles, NCandidatesArgs, ReturnAllArgs)
    \/ SuggestByBatches(FramesUpTo(SmallLen), NCandidatesArgs, ReturnAllArgs,
                        BatchSizeArgs)
    \/ Return

Spec == Init /\ [][Next]_vars

\* Correctors that are persisted and restored.
NextPersist ==
    \/ Lifecycle(EmbFiles)
    \/ Persistence
    \/ Train(FramesUpTo(SmallLen) \ {<<>>}, {None}, {"m2"})
    \/ Suggest(FramesUpTo(SmallLen), {None}, {Omitted}, {Omitted})
    \/ SuggestByBatches(FramesUpTo(SmallLen), {Omitted}, {Omitted}, {Omitted})
    \/ Return

SpecPersist == Init /\ [][NextPersist]_vars

\* One corrector in use, on DataFrames long enough for several batches.
NextBatch ==
    \/ \E vf \in VocabularyFiles :
          create_model(vf, "freq", "emb", DEFAULT_NEIGHBORS_NUMBER,
                       DEFAULT_TAKEN_FOR_DISTANCE, DEFAULT_MAX_DISTANCE,
                       DEFAULT_RADIUS)
    \/ Train(FramesUpTo(SmallLen), {None}, Models)
    \/ Suggest(FramesUpTo(MaxLen), {None}, NCandidatesArgs, ReturnAllArgs)
    \/ SuggestByBatches(FramesUpTo(MaxLen), NCandidatesArgs, ReturnAllArgs,
                        BatchSizeArgs)
    \/ Return

SpecBatch == Init /\ [][NextBatch]_vars

(***************************************************************************)
(* Concurrent callers.  A call of suggest or suggest_by_batches in flight  *)
(* is a record in calls[c]; it advances one statement group at a time, and *)
(* the steps of different callers interleave freely.  Each step reads the  *)
(* corrector's fields as they are when it runs.                            *)
(***************************************************************************)
InFlight(c) == calls[c].pc \notin {"idle", "done"}

\* Caller c takes a step while another call is in flight.
Overlaps(c) == \E d \in (1..NCallers) \ {c} : InFlight(d)

Step(c, call) ==
    calls' = [calls EXCEPT ![c] = [call EXCEPT !.shared = @ \/ Overlaps(c)]]

Done(call, outcome, value) ==
    [call EXCEPT !.pc = "done", !.outcome = outcome, !.value = value,
                 !.batch = <<>>, !.cands = <<>>, !.all_suggestions = <<>>]

\* suggest is entered (lines 108-120) with the arguments bound.
suggest_begin(c, typos, candidates, n_arg, r_arg) ==
    /\ last = Nothing
    /\ calls[c].pc = "idle"
    /\ Step(c, [pc |-> "sourcing", op |-> "suggest", typos |-> typos,
                candidates |-> candidates,
                n_candidates |-> Arg(n_arg, Some(SUGGEST_N_CANDIDATES)),
                return_all |-> Arg(r_arg, TRUE), batch_size |-> BATCH_SIZE,
                i |-> 0, batch |-> typos, cands |-> <<>>, all_suggestions |-> <<>>,
                outcome |-> "", value |-> <<>>, shared |-> FALSE])
    /\ UNCHANGED <<nn_file, threads_number, fasttext, generator, finder, ranker,
                   tree, orig, trained, last>>

\* suggest_by_batches is entered (lines 136-142): all_suggestions = [].
suggest_by_batches_begin(c, test_df, n_arg, r_arg, b_arg) ==
    /\ last = Nothing
    /\ calls[c].pc = "idle"
    /\ Step(c, [pc |-> "loop", op |-> "suggest_by_batches", typos |-> test_df,
                candidates |-> None, n_candidates |-> Arg(n_arg, None),
                return_all |-> Arg(r_arg, TRUE),
                batch_size |-> Arg(b_arg, BATCH_SIZE),
                i |-> 0, batch |-> <<>>, cands |-> <<>>, all_suggestions |-> <<>>,
                outcome |-> "", value |-> <<>>, shared |-> FALSE])
    /\ UNCHANGED <<nn_file, threads_number, fasttext, generator, finder, ranker,
                   tree, orig, trained, last>>

\* The loop head of line 143 with the slice of lines 144-146, or the return of
\* line 150.
loop_step(c) ==
    LET call == calls[c]
    IN  /\ call.pc = "loop"
        /\ IF call.i >= Len(call.typos)
           THEN Step(c, Done(call, "ok", dict(chain(call.all_suggestions))))
           ELSE LET b == Batch(call.typos, call.i, call.batch_size)
                IN  IF b.outcome # "ok"
                    THEN Step(c, Done(call, b.outcome, <<>>))
                    ELSE Step(c, [call EXCEPT !.pc = "sourcing", !.batch = b.value])
        /\ UNCHANGED <<nn_file, threads_number, fasttext, generator, finder, ranker,
                       tree, orig, trained, last>>

\* Lines 121-123: the candidates are generated unless the caller supplied them.
generate_step(c) ==
    LET call == calls[c]
    IN  /\ call.pc = "sourcing"
        /\ IF NeedsGeneration(call.candidates) /\ generator = None
           THEN Step(c, Done(call, "AttributeError", <<>>))
           ELSE Step(c, [call EXCEPT
                            !.pc = "ranking",
                            !.cands = IF NeedsGeneration(call.candidates)
                                      THEN generate_candidates(generator[1],
                                                               call.batch, finder)
                                      ELSE call.candidates[1]])
        /\ UNCHANGED <<nn_file, threads_number, fasttext, generator, finder, ranker,
                       tree, orig, trained, last>>

\* What the rank step does to the call in flight: suggest returns the ranker's
\* result (lines 124-125); the loop body appends it (lines 147-148).
Ranked_call(call) ==
    LET res == rank(ranker, get_candidates_tokens(call.cands),
                    get_candidates_features(call.cands), call.n_candidates,
                    call.return_all)
    IN  IF call.op = "suggest" THEN Done(call, res.outcome, res.value)
        ELSE IF res.outcome # "ok" THEN Done(call, res.outcome, <<>>)
        ELSE [call EXCEPT !.pc = "loop", !.i = @ + call.batch_size,
                          !.batch = <<>>, !.cands = <<>>,
                          !.all_suggestions = Append(@, res.value)]

\* A rank step that frees the trained ensemble once it has predicted.
rank_and_release(c) ==
    /\ calls[c].pc = "ranking"
    /\ Step(c, Ranked_call(calls[c]))
    /\ ranker' = [ranker EXCEPT !.bst = None]
    /\ UNCHANGED <<nn_file, threads_number, fasttext, generator, finder, tree, orig,
                   trained, last>>

\* Lines 124-125 (and 147-148 in the loop): the ranker is asked, nothing of the
\* corrector is assigned.
rank_step(c) ==
    /\ calls[c].pc = "ranking"
    /\ Step(c, Ranked_call(calls[c]))
    /\ UNCHANGED <<nn_file, threads_number, fasttext, generator, finder, ranker,
                   tree, orig, trained, last>>

\* The caller takes the value returned (or the exception raised).
call_return(c) ==
    /\ calls[c].pc = "done"
    /\ calls' = [calls EXCEPT ![c] = Idle]
    /\ UNCHANGED <<nn_file, threads_number, fasttext, generator, finder, ranker,
                   tree, orig, trained, last>>

\* One corrector shared by NCallers callers; the operations that write the
\* corrector run while no call is in flight.
NextConc ==
    \/ create_model("vocab", "freq", "emb", DEFAULT_NEIGHBORS_NUMBER,
                    DEFAULT_TAKEN_FOR_DISTANCE, DEFAULT_MAX_DISTANCE, DEFAULT_RADIUS)
    \/ set_ranker_params(DEFAULT_TRAIN_ROUNDS, DEFAULT_EARLY_STOPPING,
                         DEFAULT_BOOST_PARAM)
    \/ Train(FramesUpTo(SmallLen) \ {<<>>}, {None}, {"m1"})
    \/ Persistence
    \/ Return
    \/ \E c \in 1..NCallers :
          \/ \E typos \in FramesOver(ConcRows, ConcLen) :
                suggest_begin(c, typos, None, Omitted, Omitted)
          \/ \E test_df \in FramesOver(ConcRows, ConcLen) :
                suggest_by_batches_begin(c, test_df, Omitted, Omitted, Given(1))
          \/ loop_step(c)
          \/ generate_step(c)
          \/ rank_step(c)
          \/ call_return(c)

SpecConc == Init /\ [][NextConc]_vars

(***************************************************************************)
(* What a finished operation shows.                                        *)
(***************************************************************************)
Events(log, kinds) == SelectSeq(log, LAMBDA e : e.ev \in kinds)

Keys(d) == {d[i][1] : i \in 1..Len(d)}

TyposOf(df) == {df[i].typo : i \in 1..Len(df)}

Ceil(a, b) == (a + b - 1) \div b

Inference == {"suggest", "suggest_by_batches"}

\* The arguments of the last operation as the operation uses them.
LastN ==
    Arg(last.args.n_candidates,
        IF last.op = "suggest" THEN Some(SUGGEST_N_CANDIDATES) ELSE None)
LastR == Arg(last.args.return_all, TRUE)
LastB == Arg(last.args.batch_size, BATCH_SIZE)

\* One call of suggest on the whole DataFrame of the last operation, on the
\* corrector as it is.
SingleSuggest(n_candidates, return_all) ==
    suggest(generator, finder, threads_number, ranker, last.args.typos, None, None,
            n_candidates, return_all)

(***************************************************************************)
(* C1.  Batching equivalence: with n_candidates and return_all given,      *)
(* suggest_by_batches returns the mapping one call of suggest on the whole *)
(* record set returns, for every record set and every batch_size >= 1.     *)
(***************************************************************************)
C1_BatchingEquivalence ==
    (/\ last.op = "suggest_by_batches"
     /\ last.args.n_candidates.given
     /\ last.args.return_all.given
     /\ SingleSuggest(LastN, LastR).outcome = "ok")
    => /\ last.outcome = "ok"
       /\ last.value = SingleSuggest(LastN, LastR).value

(***************************************************************************)
(* C3.  With only the records given, suggest_by_batches hands the ranker   *)
(* the n_candidates and return_all that suggest hands it with only the     *)
(* records given.                                                          *)
(***************************************************************************)
RankArguments(log) ==
    {<<e.n_candidates, e.return_all>> :
        e \in {log[i] : i \in {j \in 1..Len(log) : log[j].ev = "rank"}}}

\* C3: called with only the records, suggest_by_batches hands the ranker no
\* n_candidates and return_all but those suggest hands it.
C3_DefaultsAgree ==
    (/\ last.op = "suggest_by_batches"
     /\ ~last.args.n_candidates.given
     /\ ~last.args.return_all.given)
    => RankArguments(last.log)
         \subseteq RankArguments(SingleSuggest(Arg(Omitted, Some(SUGGEST_N_CANDIDATES)),
                                               Arg(Omitted, TRUE)).log)

(***************************************************************************)
(* C7.  suggest and suggest_by_batches on a corrector on which neither     *)
(* train nor a model load has completed fail with ModelNotTrainedError,    *)
(* with or without precomputed candidates.                                 *)
(***************************************************************************)
C7_UntrainedFails ==
    (last.op \in Inference /\ ~trained) => last.outcome = "ModelNotTrainedError"

(***************************************************************************)
(* C8.  No partial load: a create_model that fails with DataFormatError    *)
(* leaves the corrector as it was before the call.                         *)
(***************************************************************************)
C8_NoPartialLoad ==
    (last.op = "create_model" /\ last.outcome = "DataFormatError")
    => Fields = last.pre

(***************************************************************************)
(* C9.  Batch partition: on a corrector whose suggest returns,             *)
(* suggest_by_batches makes exactly ceil(L/B) calls of suggest, the k-th   *)
(* on the records at positions k*B .. min(L, (k+1)*B) - 1, none with       *)
(* candidates or a save file, whatever the index labels.                   *)
(***************************************************************************)
C9_BatchPartition ==
    (last.op = "suggest_by_batches" /\ generator # None /\ ranker.bst # None)
    => LET made == Events(last.log, {"suggest"})
           df == last.args.typos
           L == Len(df)
       IN  /\ last.outcome = "ok"
           /\ Len(made) = Ceil(L, LastB)
           /\ \A k \in 0..(Len(made) - 1) :
                 /\ made[k + 1].typos
                      = SubSeq(df, k * LastB + 1, Min(L, (k + 1) * LastB))
                 /\ made[k + 1].candidates = None
                 /\ made[k + 1].save = None

(***************************************************************************)
(* C2.  Candidate sourcing in train and suggest: with candidates supplied  *)
(* the generator is not invoked and nothing is written to a save file;     *)
(* without, the generator is invoked exactly once, over all the typo       *)
(* records, before the ranker; either way the ranker is called exactly     *)
(* once (fit for train, rank for suggest) on the tokens and features of    *)
(* that candidate set.                                                     *)
(***************************************************************************)
Place(log, kinds) == CHOOSE i \in 1..Len(log) : log[i].ev \in kinds

SourcedOnce ==
    LET gens == Events(last.log, {"generate_candidates"})
        ranks == Events(last.log, {"fit", "rank"})
    IN  /\ IF last.args.candidates # None
           THEN Events(last.log, {"generate_candidates", "write"}) = <<>>
           ELSE /\ Len(gens) = 1
                /\ gens[1].typos = last.args.typos
        /\ Len(ranks) = 1
        /\ ranks[1].ev = IF last.op = "train" THEN "fit" ELSE "rank"
        /\ last.args.candidates = None
              => Place(last.log, {"generate_candidates"}) < Place(last.log, {"fit", "rank"})
        /\ LET cands == IF last.args.candidates # None
                        THEN last.args.candidates[1]
                        ELSE generate_candidates(last.pre.generator[1], last.args.typos,
                                                 last.pre.finder)
           IN  /\ ranks[1].tokens = get_candidates_tokens(cands)
               /\ ranks[1].features = get_candidates_features(cands)

\* C2 as stated: every train and every suggest sources its candidates so and calls
\* the ranker once.
C2_CandidateSourcing ==
    last.op \in {"train", "suggest"} => SourcedOnce

\* C2 amended: the claim holds of every train and suggest except the one without
\* candidates on a corrector that has no generator, which raises before the
\* generator or the ranker is invoked.
C2_CandidateSourcingWithGenerator ==
    last.op \in {"train", "suggest"}
    => IF last.args.candidates = None /\ last.pre.generator = None
       THEN /\ last.outcome = "AttributeError"
            /\ Events(last.log, {"generate_candidates", "write", "fit", "rank"}) = <<>>
       ELSE SourcedOnce

\* A train that generated its candidates, saved them and fitted the ranker.
C2_Witness ==
    /\ last.op = "train"
    /\ last.args.candidates = None
    /\ last.args.save # None
    /\ last.args.typos # <<>>
    /\ last.outcome = "ok"
    /\ Len(Events(last.log, {"generate_candidates", "write", "fit"})) = 3

(***************************************************************************)
(* C4.  Complete mapping: the mapping suggest and suggest_by_batches       *)
(* return has an entry for every input typo, for every return_all.         *)
(***************************************************************************)
\* C4 as stated: every input typo is a key of the mapping returned.
C4_CompleteMapping ==
    (last.op \in Inference /\ last.outcome = "ok")
    => TyposOf(last.args.typos) \subseteq Keys(last.value)

\* The candidate sets the ranker was handed: those supplied, else those generated
\* for the input records.
Sourced ==
    IF last.args.candidates # None THEN last.args.candidates[1]
    ELSE generate_candidates(generator[1], last.args.typos, finder)

\* The suggestions of typo t over the candidate sets cands, best first.
Ranked(cands, t) ==
    SuggestionsOf(ranker.bst[1], get_candidates_tokens(cands),
                  get_candidates_features(cands), t)

\* The typos of cands that rank keeps: all of them, or with return_all False those
\* whose best candidate is not the typo itself.
Kept(cands, return_all) ==
    {t \in {cands[i].typo : i \in 1..Len(cands)} :
        return_all \/ Ranked(cands, t) = <<>> \/ Ranked(cands, t)[1][1] # t}

\* C4 amended: without precomputed candidates the mapping has an entry for every
\* input typo when return_all is true, a typo without candidates with an empty
\* list; when return_all is false it has an entry for exactly the input typos whose
\* best candidate is not the typo itself, and a typo whose best candidate is the
\* typo is omitted.  A list is empty only for a typo without candidates or for
\* n_candidates = 0.  With precomputed candidates the entries are those of the
\* typos of the candidates, by the same rule.
C4_EntriesOfCandidates ==
    (last.op \in Inference /\ last.outcome = "ok")
    => /\ Keys(last.value) = Kept(Sourced, LastR)
       /\ last.args.candidates = None
          => /\ Keys(last.value) \subseteq TyposOf(last.args.typos)
             /\ LastR => Keys(last.value) = TyposOf(last.args.typos)
             /\ \A t \in TyposOf(last.args.typos) \ Keys(last.value) :
                   /\ CandidatesOf(generator[1], finder, t) # <<>>
                   /\ Ranked(Sourced, t)[1][1] = t
       /\ \A i \in 1..Len(last.value) :
             last.value[i][2] = <<>>
             <=> \/ Ranked(Sourced, last.value[i][1]) = <<>>
                 \/ LastN = Some(0)

\* Three batches over a corrected typo, a typo without candidates and a correct
\* token, with return_all False: the corrected typo has its suggestion, the typo
\* without candidates an empty list, the correct token no entry.
C4_Witness ==
    /\ last.op = "suggest_by_batches"
    /\ last.outcome = "ok"
    /\ TyposOf(last.args.typos) = {1, 3, 4}
    /\ LastR = FALSE
    /\ LastB = 1
    /\ LastN = Some(1)
    /\ Keys(last.value) = {3, 4}
    /\ \A i \in 1..Len(last.value) : last.value[i][2] = <<>> <=> last.value[i][1] = 4

(***************************************************************************)
(* C10.  Lifecycle of the generator: a corrector gets a generator only     *)
(* from create_model or _load_tree; without one, train and suggest without *)
(* precomputed candidates fail before the ranker is reached (no fit or     *)
(* rank, ranker unchanged), and with precomputed candidates they reach the *)
(* ranker.                                                                 *)
(***************************************************************************)
\* C10, on a corrector without a generator: train and suggest without candidates
\* fail before the ranker, and with candidates reach it.
C10_WithoutGenerator ==
    (last.op \in {"train", "suggest"} /\ last.pre.generator = None)
    => IF last.args.candidates = None
       THEN /\ last.outcome # "ok"
            /\ Events(last.log, {"fit", "rank"}) = <<>>
            /\ ranker = last.pre.ranker
       ELSE Len(Events(last.log, {"fit", "rank"})) = 1

\* C10: the above in every state, and a step that gives the corrector a generator
\* is a create_model or a _load_tree.
C10_GeneratorLifecycle ==
    /\ []C10_WithoutGenerator
    /\ [][(generator' # generator /\ generator' # None)
             => last'.op \in {"create_model", "_load_tree"}]_vars

\* A corrector without a generator was trained on precomputed candidates.
C10_Witness ==
    /\ last.op = "train"
    /\ last.pre.generator = None
    /\ generator = None
    /\ last.args.candidates # None
    /\ last.outcome = "ok"
    /\ ranker.bst # None

(***************************************************************************)
(* C5.  Persistence round trip: for any trained corrector, _load_tree of   *)
(* its _generate_tree on a freshly constructed corrector yields the        *)
(* original's embedding table, finder configuration and vocabulary and     *)
(* ranker state, the generator and the finder sharing the restored table,  *)
(* and suggest returns what it returned before.                            *)
(***************************************************************************)
Fresh(c) ==
    /\ c.fasttext = None
    /\ c.generator = None
    /\ c.finder = CorrectionsFinder
    /\ c.ranker = InitialRanker
    /\ ~c.trained

Configuration(f) == [k \in DOMAIN f \ {"fasttext"} |-> f[k]]

Restored ==
    /\ fasttext = orig[1].fasttext
    /\ Configuration(finder) = Configuration(orig[1].finder)
    /\ ranker = orig[1].ranker
    /\ generator # None
    /\ generator[1].fasttext = fasttext[1]
    /\ finder.fasttext = fasttext

\* What suggest returns (or raises) now and what it returned on the original.
SameSuggest ==
    \A typos \in FramesUpTo(SmallLen), n \in {None, Some(1)}, r \in BOOLEAN :
        LET now == suggest(generator, finder, threads_number, ranker, typos, None,
                           None, n, r)
            before == suggest(orig[1].generator, orig[1].finder,
                              orig[1].threads_number, orig[1].ranker, typos, None,
                              None, n, r)
        IN  now.outcome = before.outcome /\ now.value = before.value

\* C5 as stated: every trained corrector can be persisted, and restoring into a
\* fresh corrector gives the original's state and the original's suggest output.
C5_RoundTrip ==
    /\ (last.op = "_generate_tree" /\ last.pre.trained) => last.outcome = "ok"
    /\ (last.op = "_load_tree" /\ Fresh(last.pre) /\ orig[1].trained)
       => Restored /\ SameSuggest

(***************************************************************************)
(* C6.  Inference is read-only and shareable: in every interleaving of     *)
(* concurrent suggest / suggest_by_batches calls on one corrector, no step *)
(* of a call changes the embedding table, the generator, the finder or the *)
(* ranker (only train, create_model, set_ranker_params and _load_tree      *)
(* write them), and each call ends with what it returns when run alone.    *)
(***************************************************************************)
\* The call run alone, to its end, on the corrector as it is.
Alone(call) ==
    IF call.op = "suggest"
    THEN suggest(generator, finder, threads_number, ranker, call.typos,
                 call.candidates, None, call.n_candidates, call.return_all)
    ELSE suggest_by_batches(generator, finder, threads_number, ranker, call.typos,
                            call.n_candidates, call.return_all, call.batch_size)

\* C6, the result: a call that has ended holds what it returns when run alone.
C6_SameAsAlone ==
    \A c \in 1..NCallers :
        calls[c].pc = "done"
        => /\ calls[c].outcome = Alone(calls[c]).outcome
           /\ calls[c].value = Alone(calls[c]).value

\* C6: the above in every state; a step of a call leaves the corrector as it is,
\* and a step that changes the embedding table, the generator, the finder or the
\* ranker is a train, a create_model, a set_ranker_params or a _load_tree.
C6_ReadOnlyInference ==
    /\ []C6_SameAsAlone
    /\ [][/\ calls' # calls
             => UNCHANGED <<nn_file, threads_number, fasttext, generator, finder,
                            ranker, trained>>
          /\ <<fasttext, generator, finder, ranker>>'
                # <<fasttext, generator, finder, ranker>>
             => /\ last' # last
                /\ last'.op \in {"train", "create_model", "set_ranker_params",
                                 "_load_tree"}]_vars

\* A call that shared the trained corrector with another call in flight has
\* returned corrections, while a call of suggest_by_batches is in its second
\* batch.
C6_Witness ==
    \E c, d \in 1..NCallers :
        /\ c # d
        /\ calls[c].pc = "done"
        /\ calls[c].shared
        /\ calls[c].outcome = "ok"
        /\ \E k \in 1..Len(calls[c].value) : calls[c].value[k][2] # <<>>
        /\ calls[d].pc = "ranking"
        /\ calls[d].op = "suggest_by_batches"
        /\ calls[d].i > 0
        /\ calls[d].shared

====
